---- MODULE Spec2Model ----
(***************************************************************************)
(* pdfchecker: Check(data) validates the header of a PDF buffer and then   *)
(* runs four regular-expression detectors in a fixed order (pdf.go).       *)
(* A buffer is a string with one character for every byte: the character  *)
(* whose code is the byte.  A rune outside ASCII is the characters of its  *)
(* UTF-8 bytes, so U+017F (bytes C5 BF) is written "Å¿".  The regular      *)
(* expressions of pdf.go are modelled token by token and matched by        *)
(* MatchFrom.                                                              *)
(***************************************************************************)
EXTENDS Integers, Sequences, FiniteSets, TLC

VARIABLES data, pc, err, ran,       \* one call of Check
          patterns, calls, returned \* the package variables and several callers

vars == <<data, pc, err, ran, patterns, calls, returned>>

\* what lives outside the one call of Check followed by data, pc, err, ran
around == <<patterns, calls, returned>>

(***************************************************************************)
(* Error values (pdf.go:12-19): each sentinel is named by its variable.    *)
(***************************************************************************)
Nil == "nil"
ErrMaliciousPDF == "ErrMaliciousPDF"
ErrInvalidPDFStructure == "ErrInvalidPDFStructure"
ErrJavaScriptDetected == "ErrJavaScriptDetected"
ErrFormDetected == "ErrFormDetected"
ErrExternalRefDetected == "ErrExternalRefDetected"
ErrEmbeddedFileDetected == "ErrEmbeddedFileDetected"

(***************************************************************************)
(* Characters and character classes of Go's regexp (RE2 syntax).           *)
(***************************************************************************)
Char(s, i) == SubSeq(s, i, i)

\* \s is [\t\n\f\r ]
SpaceChars == {" ", "\t", "\n", "\f", "\r"}

Digits == {"0", "1", "2", "3", "4", "5", "6", "7", "8", "9"}

\* (?i): an upper-case ASCII letter and its lower-case form match each other,
\* and so do the runes of FoldRunes
ToLower ==
    ("A" :> "a") @@ ("B" :> "b") @@ ("C" :> "c") @@ ("D" :> "d") @@
    ("E" :> "e") @@ ("F" :> "f") @@ ("G" :> "g") @@ ("H" :> "h") @@
    ("I" :> "i") @@ ("J" :> "j") @@ ("K" :> "k") @@ ("L" :> "l") @@
    ("M" :> "m") @@ ("N" :> "n") @@ ("O" :> "o") @@ ("P" :> "p") @@
    ("Q" :> "q") @@ ("R" :> "r") @@ ("S" :> "s") @@ ("T" :> "t") @@
    ("U" :> "u") @@ ("V" :> "v") @@ ("W" :> "w") @@ ("X" :> "x") @@
    ("Y" :> "y") @@ ("Z" :> "z")

UpperLetters == DOMAIN ToLower

LowerLetters == {ToLower[c] : c \in UpperLetters}

Fold(c) == IF c \in UpperLetters THEN ToLower[c] ELSE c

\* the runes outside ASCII that Unicode simple folding, which (?i) applies,
\* puts with an ASCII letter: U+017F (long s, bytes C5 BF) with s and
\* U+212A (Kelvin sign, bytes E2 84 AA) with k
FoldRunes == ("s" :> "Å¿") @@ ("k" :> "âª")

\* the position after the rune at s[i] when (?i) lets it stand for the
\* pattern character c, else 0
FoldEnd(c, s, i) ==
    IF i < 1 \/ i > Len(s) THEN 0
    ELSE IF Fold(Char(s, i)) = Fold(c) THEN i + 1
    ELSE IF Fold(c) \notin DOMAIN FoldRunes THEN 0
    ELSE LET r == FoldRunes[Fold(c)] IN
         IF i + Len(r) - 1 <= Len(s) /\ SubSeq(s, i, i + Len(r) - 1) = r
         THEN i + Len(r) ELSE 0

\* \b separates a word character [0-9A-Za-z_] from a non-word character
WordChars == Digits \cup UpperLetters \cup LowerLetters \cup {"_"}

\* [0-9A-Fa-f]
HexChars == Digits \cup {"a", "b", "c", "d", "e", "f", "A", "B", "C", "D", "E", "F"}

IsSpace(s, i) == i >= 1 /\ i <= Len(s) /\ Char(s, i) \in SpaceChars

IsWord(s, i) == i >= 1 /\ i <= Len(s) /\ Char(s, i) \in WordChars

IsHex(s, i) == i >= 1 /\ i <= Len(s) /\ Char(s, i) \in HexChars

\* \b holds between s[i-1] and s[i]
WordBoundary(s, i) == IsWord(s, i - 1) # IsWord(s, i)

Min(S) == CHOOSE x \in S : \A y \in S : x <= y

\* the first position >= i that holds no character of the class
RECURSIVE SpaceRunEnd(_, _)
SpaceRunEnd(s, i) == IF IsSpace(s, i) THEN SpaceRunEnd(s, i + 1) ELSE i

RECURSIVE HexRunEnd(_, _)
HexRunEnd(s, i) == IF IsHex(s, i) THEN HexRunEnd(s, i + 1) ELSE i

\* the position after the match of lit[k..] at s[i], letters compared
\* without case; 0 when it does not match, and when i is 0: lit[k-1] did
\* not match
RECURSIVE LitEndFrom(_, _, _, _)
LitEndFrom(lit, k, s, i) ==
    IF i = 0 THEN 0
    ELSE IF k > Len(lit) THEN i
    ELSE LitEndFrom(lit, k + 1, s, FoldEnd(Char(lit, k), s, i))

LitEnd(lit, s, i) == IF i < 1 THEN 0 ELSE LitEndFrom(lit, 1, s, i)

\* the literal lit stands in s at position i, letters compared without case
LitAt(lit, s, i) == LitEnd(lit, s, i) # 0

(***************************************************************************)
(* A regular expression is a sequence of tokens: a literal, or one of the  *)
(* operators below.  Every pattern of pdf.go is compiled with (?i).        *)
(***************************************************************************)
WS == "\\s*"
WB == "\\b"
OptS == "s?"
Hex2 == "(?:[0-9A-Fa-f]{2,})+"
Hex4 == "[0-9A-Fa-f]{4,}"

\* tokens rx[k..] match s from position i on
RECURSIVE MatchFrom(_, _, _, _)
MatchFrom(rx, k, s, i) ==
    IF k > Len(rx) THEN TRUE
    ELSE LET t == rx[k] IN
         CASE t = WS ->
                \E j \in i..SpaceRunEnd(s, i) : MatchFrom(rx, k + 1, s, j)
           [] t = WB ->
                WordBoundary(s, i) /\ MatchFrom(rx, k + 1, s, i)
           [] t = OptS ->
                \/ MatchFrom(rx, k + 1, s, i)
                \/ LET e == LitEnd("s", s, i) IN
                   e # 0 /\ MatchFrom(rx, k + 1, s, e)
           [] t = Hex2 ->
                \E j \in (i + 2)..HexRunEnd(s, i) : MatchFrom(rx, k + 1, s, j)
           [] t = Hex4 ->
                \E j \in (i + 4)..HexRunEnd(s, i) : MatchFrom(rx, k + 1, s, j)
           [] OTHER ->
                LET e == LitEnd(t, s, i) IN
                e # 0 /\ MatchFrom(rx, k + 1, s, e)

\* regexp.MatchString: the expression matches somewhere in s
MatchString(rx, s) == \E i \in 1..(Len(s) + 1) : MatchFrom(rx, 1, s, i)

\* some expression of the list matches s (the detectors' for loops)
MatchAny(rxs, s) == \E n \in 1..Len(rxs) : MatchString(rxs[n], s)

(***************************************************************************)
(* The precompiled expressions (pdf.go:22-71).                             *)
(***************************************************************************)
\* mutant: the markers written without \s* after the slash
jsPatterns_Tight ==
    << <<"/JavaScript">>,
       <<"/JS">>,
       <<"/", WS, "OpenAction">>,
       <<"app", WS, ".">>,
       <<"eval", WS, "(">>,
       <<"document", WS, ".">>,
       <<"this", WS, ".">>,
       <<"getField", WS, "(">>,
       <<"submitForm", WS, "(">>,
       <<"importDataObject", WS, "(">>,
       <<"JS(", WS, "#", Hex2>> >>

jsPatterns ==
    << <<"/", WS, "JavaScript">>,
       <<"/", WS, "JS">>,
       <<"/", WS, "OpenAction">>,
       <<"app", WS, ".">>,
       <<"eval", WS, "(">>,
       <<"document", WS, ".">>,
       <<"this", WS, ".">>,
       <<"getField", WS, "(">>,
       <<"submitForm", WS, "(">>,
       <<"importDataObject", WS, "(">>,
       <<"JS(", WS, "#", Hex2>> >>

jsHexAngle == <<"<", Hex4, ">">>

\* javascript|js, one entry per alternative
jsWordRegex == << <<"javascript">>, <<"js">> >>

formPatternsRegex ==
    << <<"/", WS, "AcroForm">>,
       <<"/", WS, "XFA">>,
       <<"/", WS, "Widget">>,
       <<"/", WS, "FT", WS, "/", WS, "Tx">>,
       <<"/", WS, "FT", WS, "/", WS, "Ch">>,
       <<"/", WS, "FT", WS, "/", WS, "Btn">>,
       <<"/", WS, "FT", WS, "/", WS, "Sig">> >>

\* mutant: the ftp scheme left out of the list
externalRegexes_NoFtp ==
    << <<"/", WS, "GoToR">>,
       <<"/", WS, "Launch">>,
       <<"/", WS, "ImportData">>,
       <<"/", WS, "SubmitForm">>,
       <<"/", WS, "URI", WB>>,
       <<"URI", WS, "(">>,
       <<WB, "http", OptS, "://">>,
       <<WB, "file://">> >>

externalRegexes ==
    << <<"/", WS, "GoToR">>,
       <<"/", WS, "Launch">>,
       <<"/", WS, "ImportData">>,
       <<"/", WS, "SubmitForm">>,
       <<"/", WS, "URI", WB>>,
       <<"URI", WS, "(">>,
       <<WB, "http", OptS, "://">>,
       <<WB, "file://">>,
       <<WB, "ftp://">> >>

embeddedFilesRegex ==
    << <<"/", WS, "EmbeddedFile">>,
       <<"/", WS, "FileAttachment">>,
       <<"/", WS, "Filespec">> >>

(***************************************************************************)
(* ReplaceAllString and FindAllStringIndex: leftmost matches, one after    *)
(* the other, none overlapping.                                            *)
(***************************************************************************)
\* whitespaceRegex = \s+ (pdf.go:23), every match replaced by one space
RECURSIVE CollapseFrom(_, _)
CollapseFrom(s, p) ==
    LET starts == {i \in p..Len(s) : IsSpace(s, i)} IN
    IF starts = {} THEN SubSeq(s, p, Len(s))
    ELSE LET i == Min(starts) IN
         SubSeq(s, p, i - 1) \o " " \o CollapseFrom(s, SpaceRunEnd(s, i))

CollapseWhitespace(s) == CollapseFrom(s, 1)

\* streamRx = (?is)stream\b.*?endstream (pdf.go:116): the position after the
\* match that starts at i, or 0 when there is none
StreamMatchEnd(s, i) ==
    LET e == LitEnd("stream", s, i)
        ends == {j \in e..Len(s) : LitAt("endstream", s, j)}
    IN  IF e # 0 /\ WordBoundary(s, e) /\ ends # {}
        THEN LitEnd("endstream", s, Min(ends))
        ELSE 0

\* streamRx.ReplaceAllString(content, " ")
RECURSIVE StripFrom(_, _)
StripFrom(s, p) ==
    LET starts == {i \in p..Len(s) : StreamMatchEnd(s, i) # 0} IN
    IF starts = {} THEN SubSeq(s, p, Len(s))
    ELSE LET i == Min(starts) IN
         SubSeq(s, p, i - 1) \o " " \o StripFrom(s, StreamMatchEnd(s, i))

StripStreams(s) == StripFrom(s, 1)

\* jsHexRx = #(?:[0-9A-Fa-f]{2}){4,} (pdf.go:40): the position after the
\* (greedy) match that starts at i, or 0 when there is none
HexPairsMin == 4

HexMatchEnd(s, i) ==
    LET run == HexRunEnd(s, i + 1) - (i + 1) IN
    IF i >= 1 /\ i <= Len(s) /\ Char(s, i) = "#" /\ run >= 2 * HexPairsMin
    THEN i + 1 + 2 * (run \div 2)
    ELSE 0

\* jsHexRx.FindAllStringIndex(s, -1): the start of every match, in order
RECURSIVE FindAllHexFrom(_, _)
FindAllHexFrom(s, p) ==
    LET starts == {i \in p..Len(s) : HexMatchEnd(s, i) # 0} IN
    IF starts = {} THEN <<>>
    ELSE LET i == Min(starts) IN <<i>> \o FindAllHexFrom(s, HexMatchEnd(s, i))

FindAllHex(s) == FindAllHexFrom(s, 1)

(***************************************************************************)
(* The detectors (pdf.go:113-184).                                         *)
(***************************************************************************)
HexContext == 80

\* mutant: a window of 79 bytes
HexCtx_Short(s, start) ==
    LET from == IF start - (HexContext - 1) < 1 THEN 1 ELSE start - (HexContext - 1) IN
    SubSeq(s, from, start - 1)

\* contentNoStreams[from:start], the 80 bytes before a hex run
HexCtx(s, start) ==
    LET from == IF start - HexContext < 1 THEN 1 ELSE start - HexContext IN
    SubSeq(s, from, start - 1)

\* mutant: the stream bodies are not removed
checkForJavaScript_NoStrip(content) ==
    LET contentNoStreams == content
        normalized == CollapseWhitespace(contentNoStreams)
        locs == FindAllHex(contentNoStreams)
    IN  IF MatchAny(jsPatterns, normalized) THEN ErrJavaScriptDetected
        ELSE IF \E n \in 1..Len(locs) :
                    MatchAny(jsWordRegex, HexCtx(contentNoStreams, locs[n]))
        THEN ErrJavaScriptDetected
        ELSE IF /\ MatchString(jsHexAngle, contentNoStreams)
                /\ MatchAny(jsWordRegex, contentNoStreams)
        THEN ErrJavaScriptDetected
        ELSE Nil

\* mutant: an angle-bracket hex string is reported without a "js" in the text
checkForJavaScript_AngleOnly(content) ==
    LET contentNoStreams == StripStreams(content)
        normalized == CollapseWhitespace(contentNoStreams)
        locs == FindAllHex(contentNoStreams)
    IN  IF MatchAny(jsPatterns, normalized) THEN ErrJavaScriptDetected
        ELSE IF \E n \in 1..Len(locs) :
                    MatchAny(jsWordRegex, HexCtx(contentNoStreams, locs[n]))
        THEN ErrJavaScriptDetected
        ELSE IF MatchString(jsHexAngle, contentNoStreams)
        THEN ErrJavaScriptDetected
        ELSE Nil

checkForJavaScript(content) ==
    LET contentNoStreams == StripStreams(content)
        normalized == CollapseWhitespace(contentNoStreams)
        locs == FindAllHex(contentNoStreams)
    IN  IF MatchAny(jsPatterns, normalized) THEN ErrJavaScriptDetected
        ELSE IF \E n \in 1..Len(locs) :
                    MatchAny(jsWordRegex, HexCtx(contentNoStreams, locs[n]))
        THEN ErrJavaScriptDetected
        ELSE IF /\ MatchString(jsHexAngle, contentNoStreams)
                /\ MatchAny(jsWordRegex, contentNoStreams)
        THEN ErrJavaScriptDetected
        ELSE Nil

\* mutant: the forms are looked for in the stream-stripped text
checkForForms_Stripped(content) ==
    IF MatchAny(formPatternsRegex, StripStreams(content)) THEN ErrFormDetected ELSE Nil

\* mutant: the subtype names are matched without /FT before them
checkForForms_BareSubtypes(content) ==
    IF MatchAny(<< <<"/AcroForm">>, <<"/XFA">>, <<"/Widget">>, <<"/Tx">>,
                   <<"/Ch">>, <<"/Btn">>, <<"/Sig">> >>, content)
    THEN ErrFormDetected ELSE Nil

checkForForms(content) ==
    IF MatchAny(formPatternsRegex, content) THEN ErrFormDetected ELSE Nil

checkForExternalReferences(content) ==
    LET normalized == CollapseWhitespace(content) IN
    IF MatchAny(externalRegexes, normalized) THEN ErrExternalRefDetected ELSE Nil

\* mutant: an error made on the spot instead of the sentinel
checkForEmbeddedFiles_NewError(content) ==
    IF MatchAny(embeddedFilesRegex, content)
    THEN "errors.New(embedded files detected in PDF)" ELSE Nil

checkForEmbeddedFiles(content) ==
    IF MatchAny(embeddedFilesRegex, content) THEN ErrEmbeddedFileDetected ELSE Nil

(***************************************************************************)
(* The header test of Check (pdf.go:75-86).                                *)
(***************************************************************************)
HeaderLimit == 1024

PDFHeader == "%PDF-"

\* bytes.Contains
Contains(s, sub) ==
    \E i \in 1..(Len(s) - Len(sub) + 1) : SubSeq(s, i, i + Len(sub) - 1) = sub

\* mutant: the header is looked for in the whole buffer
HasHeader_WholeBuffer(d) == Contains(d, PDFHeader)

HasHeader(d) ==
    LET limit == IF Len(d) < HeaderLimit THEN Len(d) ELSE HeaderLimit IN
    Contains(SubSeq(d, 1, limit), PDFHeader)

(***************************************************************************)
(* The buffers Check is called on: a lead (empty, a header, leading        *)
(* garbage before a header) followed by at most MaxFrags fragments of one  *)
(* vocabulary.                                                             *)
(***************************************************************************)
MaxFrags == 3

\* n copies of s
RECURSIVE Rep(_, _)
Rep(s, n) ==
    IF n = 0 THEN ""
    ELSE LET h == Rep(s, n \div 2) IN
         IF n % 2 = 1 THEN h \o h \o s ELSE h \o h

\* every concatenation of at most n fragments of the vocabulary V
RECURSIVE Bodies(_, _)
Bodies(V, n) ==
    IF n = 0 THEN {""}
    ELSE {""} \cup {f \o b : f \in V, b \in Bodies(V, n - 1)}

Scenario(leads, V) == {l \o b : l \in leads, b \in Bodies(V, MaxFrags)}

Version == "%PDF-1.4 "

\* leading garbage (pdf.go:79) that ends the header at byte 1024, lets it
\* straddle byte 1024, or pushes it behind byte 1024
GarbageLens == {1019, 1020, 1023, 1024}

Filler == Rep("g", 70)

HeaderInputs ==
    Scenario({"", "%PDF", "Not a PDF file ", "%PDF-", "\n\n%PDF-1.4 "},
             {"/JS ", "/AcroForm (http://a) /Filespec ", "%PDF-"})
    \cup Scenario({Rep("x", n) \o "%PDF-" : n \in GarbageLens},
                  {"/JS ", "%PDF-"})

OrderInputs ==
    Scenario({Version},
             {"/JS ", "/AcroForm ", "(http://a) ", "/Filespec ",
              "stream /JS endstream "})

MarkerInputs ==
    Scenario({Version},
             {"/ \n js ", "/JAVASCRIPT ", "/Java\tScript ", "/J S ",
              "stream", " endstream "})

StreamInputs ==
    Scenario({Version},
             {"/", "JS ", "<6a73> ", "stream /JS endstream", "stream ",
              "endstream "})

HexInputs ==
    Scenario({Version},
             {"js", "JavaScript", Filler, "#61626364", "stream ",
              "endstream "})

URLInputs ==
    Scenario({Version},
             {"http://a ", "https://a ", "ftp://a ", "file://a ", "x",
              "stream x endstream "})

FormInputs ==
    Scenario({Version},
             {"/FT/Tx ", "/ft / ch ", "/FT\n/\tBtn ", "/ FT/Sig ",
              "stream ", "endstream "})

CleanInputs ==
    Scenario({Version},
             {"1 0 obj <</Type/Catalog>> ", "/Contents(Safe note) ",
              "/Tx ", "xhttp://a ", "/Java Script <6a73> ",
              "stream /JS endstream "})

\* one call shape of the scripting API each, and a JS( call with a hex
\* argument
ApiInputs ==
    Scenario({Version \o w : w \in {"", "/OpenAction ", "app .", "eval(", "document .",
                                     "this.", "getField (", "submitForm(",
                                     "importDataObject\t("}},
             {"JS(", " #6a ", "#6"})

\* the long s (U+017F) where a pattern has an s
FoldInputs ==
    Scenario({Version},
             {"/JÅ¿ ", "Å¿tream /JS endÅ¿tream ", "/FT /Å¿ig ", "httpÅ¿://a /FileÅ¿pec "})

Inputs ==
    HeaderInputs \cup OrderInputs \cup MarkerInputs \cup StreamInputs
    \cup HexInputs \cup URLInputs \cup FormInputs \cup CleanInputs \cup ApiInputs \cup FoldInputs

(***************************************************************************)
(* The package variables and the callers of Check.  The four signature     *)
(* lists are package variables (pdf.go:25-70) that every call reads; a     *)
(* caller is idle or inside one call of Check, whose locals are its own.   *)
(***************************************************************************)
NumCallers == 2

MaxCalls == 3

Callers == 1..NumCallers

\* the value of the four lists after package initialization
Compiled ==
    [js |-> jsPatterns, forms |-> formPatternsRegex,
     external |-> externalRegexes, embedded |-> embeddedFilesRegex]

\* the buffers the callers pass: one for every answer of Check, and one
\* with signatures of three categories
CallBuffers ==
    {"Not a PDF", "%PDF-app.alert(1)", "%PDF-/XFA /Filespec", "%PDF-(ftp://a)",
     "%PDF-/Filespec", "%PDF-1.4 ok"}

\* a caller outside Check
Idle == [data |-> "", content |-> "", pc |-> "idle", err |-> Nil]

(***************************************************************************)
(* Check (pdf.go:74-111), one action per detector it calls.  ran lists the *)
(* detectors called so far, err is the value Check returns.                *)
(***************************************************************************)
Init ==
    /\ data \in Inputs
    /\ pc = "call"
    /\ err = Nil
    /\ ran = <<>>
    /\ patterns = Compiled
    /\ calls = [p \in Callers |-> Idle]
    /\ returned = [b \in CallBuffers |-> <<>>]

\* pdf.go:75-86
Check_Structure ==
    /\ pc = "call"
    /\ ran' = Append(ran, "structure")
    /\ IF Len(data) = 0 \/ ~HasHeader(data)
       THEN err' = ErrInvalidPDFStructure /\ pc' = "done"
       ELSE err' = err /\ pc' = "js"
    /\ UNCHANGED <<data, around>>

\* mutant: the script detector's error is not returned at once
Check_JavaScript_NoReturn ==
    /\ pc = "js"
    /\ ran' = Append(ran, "checkForJavaScript")
    /\ err' = checkForJavaScript(data)
    /\ pc' = "forms"
    /\ UNCHANGED <<data, around>>

\* pdf.go:88-93
Check_JavaScript ==
    /\ pc = "js"
    /\ ran' = Append(ran, "checkForJavaScript")
    /\ LET e == checkForJavaScript(data) IN
       IF e # Nil THEN err' = e /\ pc' = "done"
       ELSE err' = err /\ pc' = "forms"
    /\ UNCHANGED <<data, around>>

\* mutant: the form detector's error is not returned at once
Check_Forms_NoReturn ==
    /\ pc = "forms"
    /\ ran' = Append(ran, "checkForForms")
    /\ err' = checkForForms(data)
    /\ pc' = "external"
    /\ UNCHANGED <<data, around>>

\* pdf.go:95-98
Check_Forms ==
    /\ pc = "forms"
    /\ ran' = Append(ran, "checkForForms")
    /\ LET e == checkForForms(data) IN
       IF e # Nil THEN err' = e /\ pc' = "done"
       ELSE err' = err /\ pc' = "external"
    /\ UNCHANGED <<data, around>>

\* pdf.go:100-103
Check_ExternalReferences ==
    /\ pc = "external"
    /\ ran' = Append(ran, "checkForExternalReferences")
    /\ LET e == checkForExternalReferences(data) IN
       IF e # Nil THEN err' = e /\ pc' = "done"
       ELSE err' = err /\ pc' = "embedded"
    /\ UNCHANGED <<data, around>>

\* pdf.go:105-110
Check_EmbeddedFiles ==
    /\ pc = "embedded"
    /\ ran' = Append(ran, "checkForEmbeddedFiles")
    /\ LET e == checkForEmbeddedFiles(data) IN
       IF e # Nil THEN err' = e ELSE err' = Nil
    /\ pc' = "done"
    /\ UNCHANGED <<data, around>>

Next ==
    \/ Check_Structure
    \/ Check_JavaScript
    \/ Check_Forms
    \/ Check_ExternalReferences
    \/ Check_EmbeddedFiles

Spec == Init /\ [][Next]_vars

(***************************************************************************)
(* Several callers.  Each caller calls Check again and again, on any       *)
(* buffer of CallBuffers, and the steps of the calls interleave freely.    *)
(* The locals of a call (data, content, err) are in calls[p]; the lists    *)
(* the detectors range over are read from the package variables at the     *)
(* step that uses them.  returned[b] lists, in the order of the returns,   *)
(* what the finished calls on b returned.                                  *)
(***************************************************************************)
single == <<data, pc, err, ran>>

RECURSIVE SumLen(_, _)
SumLen(f, S) ==
    IF S = {} THEN 0
    ELSE LET b == CHOOSE x \in S : TRUE IN Len(f[b]) + SumLen(f, S \ {b})

\* the calls made so far, finished or not
Started ==
    SumLen(returned, CallBuffers) + Cardinality({p \in Callers : calls[p].pc # "idle"})

\* checkForJavaScript (pdf.go:114-148) with the list it finds in jsPatterns
detectJavaScript(rxs, content) ==
    LET contentNoStreams == StripStreams(content)
        normalized == CollapseWhitespace(contentNoStreams)
        locs == FindAllHex(contentNoStreams)
    IN  IF MatchAny(rxs, normalized) THEN ErrJavaScriptDetected
        ELSE IF \E n \in 1..Len(locs) :
                    MatchAny(jsWordRegex, HexCtx(contentNoStreams, locs[n]))
        THEN ErrJavaScriptDetected
        ELSE IF /\ MatchString(jsHexAngle, contentNoStreams)
                /\ MatchAny(jsWordRegex, contentNoStreams)
        THEN ErrJavaScriptDetected
        ELSE Nil

\* checkForForms (pdf.go:151-159) with the list it finds in formPatternsRegex
detectForms(rxs, content) ==
    IF MatchAny(rxs, content) THEN ErrFormDetected ELSE Nil

\* checkForExternalReferences (pdf.go:162-173) with the list it finds in
\* externalRegexes
detectExternalReferences(rxs, content) ==
    LET normalized == CollapseWhitespace(content) IN
    IF MatchAny(rxs, normalized) THEN ErrExternalRefDetected ELSE Nil

\* checkForEmbeddedFiles (pdf.go:176-184) with the list it finds in
\* embeddedFilesRegex
detectEmbeddedFiles(rxs, content) ==
    IF MatchAny(rxs, content) THEN ErrEmbeddedFileDetected ELSE Nil

InitCalls ==
    /\ data = ""
    /\ pc = "idle"
    /\ err = Nil
    /\ ran = <<>>
    /\ patterns = Compiled
    /\ calls = [p \in Callers |-> Idle]
    /\ returned = [b \in CallBuffers |-> <<>>]

\* a caller enters Check with a buffer (pdf.go:74)
Call(p) ==
    /\ calls[p].pc = "idle"
    /\ Started < MaxCalls
    /\ \E d \in CallBuffers :
          calls' = [calls EXCEPT ![p] = [data |-> d, content |-> "", pc |-> "call", err |-> Nil]]
    /\ UNCHANGED <<single, patterns, returned>>

\* mutant: content is one package variable, written by every call
Run_Structure_SharedContent(p) ==
    /\ calls[p].pc = "call"
    /\ LET d == calls[p].data IN
       IF Len(d) = 0 \/ ~HasHeader(d)
       THEN calls' = [calls EXCEPT ![p].err = ErrInvalidPDFStructure, ![p].pc = "done"]
       ELSE calls' = [q \in Callers |->
                        IF q = p THEN [calls[q] EXCEPT !.content = d, !.pc = "js"]
                        ELSE [calls[q] EXCEPT !.content = d]]
    /\ UNCHANGED <<single, patterns, returned>>

\* pdf.go:75-88: the header test and content := string(data)
Run_Structure(p) ==
    /\ calls[p].pc = "call"
    /\ LET d == calls[p].data IN
       IF Len(d) = 0 \/ ~HasHeader(d)
       THEN calls' = [calls EXCEPT ![p].err = ErrInvalidPDFStructure, ![p].pc = "done"]
       ELSE calls' = [calls EXCEPT ![p].content = d, ![p].pc = "js"]
    /\ UNCHANGED <<single, patterns, returned>>

\* pdf.go:90-93
Run_JavaScript(p) ==
    /\ calls[p].pc = "js"
    /\ LET e == detectJavaScript(patterns.js, calls[p].content) IN
       IF e # Nil THEN calls' = [calls EXCEPT ![p].err = e, ![p].pc = "done"]
       ELSE calls' = [calls EXCEPT ![p].pc = "forms"]
    /\ UNCHANGED <<single, patterns, returned>>

\* mutant: the call that finds a form uses the list up
Run_Forms_Consuming(p) ==
    /\ calls[p].pc = "forms"
    /\ LET e == detectForms(patterns.forms, calls[p].content) IN
       IF e # Nil
       THEN /\ calls' = [calls EXCEPT ![p].err = e, ![p].pc = "done"]
            /\ patterns' = [patterns EXCEPT !.forms = <<>>]
       ELSE /\ calls' = [calls EXCEPT ![p].pc = "external"]
            /\ UNCHANGED patterns
    /\ UNCHANGED <<single, returned>>

\* pdf.go:95-98
Run_Forms(p) ==
    /\ calls[p].pc = "forms"
    /\ LET e == detectForms(patterns.forms, calls[p].content) IN
       IF e # Nil THEN calls' = [calls EXCEPT ![p].err = e, ![p].pc = "done"]
       ELSE calls' = [calls EXCEPT ![p].pc = "external"]
    /\ UNCHANGED <<single, patterns, returned>>

\* pdf.go:100-103
Run_ExternalReferences(p) ==
    /\ calls[p].pc = "external"
    /\ LET e == detectExternalReferences(patterns.external, calls[p].content) IN
       IF e # Nil THEN calls' = [calls EXCEPT ![p].err = e, ![p].pc = "done"]
       ELSE calls' = [calls EXCEPT ![p].pc = "embedded"]
    /\ UNCHANGED <<single, patterns, returned>>

\* pdf.go:105-110
Run_EmbeddedFiles(p) ==
    /\ calls[p].pc = "embedded"
    /\ LET e == detectEmbeddedFiles(patterns.embedded, calls[p].content) IN
       calls' = [calls EXCEPT ![p].err = e, ![p].pc = "done"]
    /\ UNCHANGED <<single, patterns, returned>>

\* the caller receives what Check returned
Return(p) ==
    /\ calls[p].pc = "done"
    /\ returned' = [returned EXCEPT ![calls[p].data] = Append(@, calls[p].err)]
    /\ calls' = [calls EXCEPT ![p] = Idle]
    /\ UNCHANGED <<single, patterns>>

NextCalls ==
    \E p \in Callers :
        \/ Call(p)
        \/ Run_Structure(p)
        \/ Run_JavaScript(p)
        \/ Run_Forms(p)
        \/ Run_ExternalReferences(p)
        \/ Run_EmbeddedFiles(p)
        \/ Return(p)

SpecCalls == InitCalls /\ [][NextCalls]_vars

(***************************************************************************)
(* Vocabulary of the properties.  A property "every buffer with P is       *)
(* answered E" is written for the finished call as "a buffer that is not   *)
(* answered E does not have P".                                            *)
(***************************************************************************)
Done == pc = "done"

\* the detectors in the order Check is specified to call them
Order ==
    <<"structure", "checkForJavaScript", "checkForForms",
      "checkForExternalReferences", "checkForEmbeddedFiles">>

\* what a detector reports on a buffer
Verdict(det, d) ==
    CASE det = "structure" ->
           IF Len(d) = 0 \/ ~HasHeader(d) THEN ErrInvalidPDFStructure ELSE Nil
      [] det = "checkForJavaScript" -> checkForJavaScript(d)
      [] det = "checkForForms" -> checkForForms(d)
      [] det = "checkForExternalReferences" -> checkForExternalReferences(d)
      [] det = "checkForEmbeddedFiles" -> checkForEmbeddedFiles(d)

\* the sentinel that belongs to each detector (spec section 7)
SentinelOf(det) ==
    CASE det = "structure" -> ErrInvalidPDFStructure
      [] det = "checkForJavaScript" -> ErrJavaScriptDetected
      [] det = "checkForForms" -> ErrFormDetected
      [] det = "checkForExternalReferences" -> ErrExternalRefDetected
      [] det = "checkForEmbeddedFiles" -> ErrEmbeddedFileDetected

\* the text t stands in s at position i, byte for byte
TextAt(t, s, i) == i >= 1 /\ i + Len(t) - 1 <= Len(s) /\ SubSeq(s, i, i + Len(t) - 1) = t

\* the positions at which a complete "%PDF-" lies inside the first
\* min(1024, length) bytes
HeaderStarts(d) ==
    {i \in 1..Len(d) : TextAt("%PDF-", d, i) /\ i + 4 <= 1024}

\* the positions after the matches of rx[k..] that start at i
RECURSIVE MatchEnds(_, _, _, _)
MatchEnds(rx, k, s, i) ==
    IF k > Len(rx) THEN {i}
    ELSE LET t == rx[k] IN
         CASE t = WS ->
                UNION {MatchEnds(rx, k + 1, s, j) : j \in i..SpaceRunEnd(s, i)}
           [] OTHER ->
                IF LitAt(t, s, i) THEN MatchEnds(rx, k + 1, s, LitEnd(t, s, i)) ELSE {}

\* the stream regions of a buffer: <<first position, position after the last>>
\* of every stream...endstream match, found from left to right
RECURSIVE RegionsFrom(_, _)
RegionsFrom(s, p) ==
    LET starts == {i \in p..Len(s) : StreamMatchEnd(s, i) # 0} IN
    IF starts = {} THEN {}
    ELSE LET i == Min(starts) IN
         {<<i, StreamMatchEnd(s, i)>>} \cup RegionsFrom(s, StreamMatchEnd(s, i))

Regions(s) == RegionsFrom(s, 1)

\* no position of a..b lies in a region
Outside(regs, a, b) == \A r \in regs : b < r[1] \/ a >= r[2]

\* rx matches the raw text at positions that all lie outside the regions
MatchesOutside(rx, s, regs) ==
    \E i \in 1..Len(s) :
        \E e \in MatchEnds(rx, 1, s, i) : Outside(regs, i, e - 1)

\* the text outside the regions, each region replaced by sep
RECURSIVE OutsideFrom(_, _, _, _)
OutsideFrom(s, regs, p, sep) ==
    LET rest == {r \in regs : r[1] >= p} IN
    IF rest = {} THEN SubSeq(s, p, Len(s))
    ELSE LET r == CHOOSE x \in rest : \A y \in rest : x[1] <= y[1] IN
         SubSeq(s, p, r[1] - 1) \o sep \o OutsideFrom(s, regs, r[2], sep)

OutsideText(s, sep) == OutsideFrom(s, Regions(s), 1, sep)

\* a "#" followed by at least 8 hex digits stands at position i
HexRunAt(s, i) ==
    /\ TextAt("#", s, i)
    /\ \A k \in 1..8 : IsHex(s, i + k)

\* the token word lies wholly within the 80 characters before position i,
\* outside the regions
TokenBefore(word, s, regs, i) ==
    \E p \in (i - 80)..(i - 1) :
        LET e == LitEnd(word, s, p) IN
        e # 0 /\ e <= i /\ Outside(regs, p, e - 1)

\* a script signature of section 4.3 in a text without streams
ScriptSignature(t) ==
    \/ MatchAny(jsPatterns, CollapseWhitespace(t))
    \/ \E i \in 1..Len(t) :
          HexRunAt(t, i) /\ (TokenBefore("javascript", t, {}, i) \/ TokenBefore("js", t, {}, i))
    \/ /\ MatchString(jsHexAngle, t)
       /\ MatchAny(jsWordRegex, t)


(***************************************************************************)
(* C1.  Structure validation is fail-fast: an empty buffer, or one whose   *)
(* first min(1024, length) bytes hold no complete "%PDF-", is answered     *)
(* InvalidStructure by the structure step alone, whatever follows; a       *)
(* buffer with "%PDF-" wholly inside that prefix is never answered         *)
(* InvalidStructure.                                                       *)
(***************************************************************************)
C1_FailFast ==
    Done =>
        /\ HeaderStarts(data) = {} =>
               err = ErrInvalidPDFStructure /\ ran = <<"structure">>
        /\ HeaderStarts(data) # {} => err # ErrInvalidPDFStructure

\* a header that straddles byte 1024, followed by a script marker, rejected
C1_Witness ==
    /\ Done
    /\ err = ErrInvalidPDFStructure
    /\ \E i \in 1021..1024 : TextAt("%PDF-", data, i)
    /\ checkForJavaScript(data) # Nil

\* further cases of C1: a header after leading garbage is accepted
C1_WitnessGarbage ==
    /\ Done
    /\ err # ErrInvalidPDFStructure
    /\ HeaderStarts(data) = {1020}

(***************************************************************************)
(* C2.  Script priority: a buffer with a valid header on which the script  *)
(* detector and a forms, external-reference or embedded-file detector all  *)
(* match is answered ScriptDetected.                                       *)
(***************************************************************************)
C2_ScriptPriority ==
    Done /\ err # ErrJavaScriptDetected =>
        ~( /\ HasHeader(data)
           /\ checkForJavaScript(data) # Nil
           /\ \/ checkForForms(data) # Nil
              \/ checkForExternalReferences(data) # Nil
              \/ checkForEmbeddedFiles(data) # Nil )

\* a script marker that follows a forms and an external-reference signature
C2_Witness ==
    /\ Done
    /\ HasHeader(data)
    /\ checkForJavaScript(data) # Nil
    /\ checkForForms(data) # Nil
    /\ checkForExternalReferences(data) # Nil
    /\ \E i \in 1..Len(data) :
          /\ TextAt("/JS", data, i)
          /\ \E j \in 1..(i - 1) : TextAt("/AcroForm", data, j)
    /\ err = ErrJavaScriptDetected

\* a script marker and an embedded-file signature
C2_WitnessEmbedded ==
    /\ Done
    /\ checkForJavaScript(data) # Nil
    /\ checkForEmbeddedFiles(data) # Nil
    /\ err = ErrJavaScriptDetected

(***************************************************************************)
(* C3.  Check calls the detectors in the order structure, script, forms,   *)
(* external-reference, embedded-file and stops at the first that reports:  *)
(* the detectors called are a prefix of that order, every one but the last *)
(* called passed, and the verdict is what the last one called reported.    *)
(***************************************************************************)
C3_FixedOrder ==
    Done =>
        /\ ran # <<>>
        /\ Len(ran) <= Len(Order)
        /\ ran = SubSeq(Order, 1, Len(ran))
        /\ \A k \in 1..(Len(ran) - 1) : Verdict(Order[k], data) = Nil
        /\ err = Verdict(Order[Len(ran)], data)
        /\ err = Nil => Len(ran) = Len(Order)

\* forms, external and embedded signatures, no script: forms wins and the
\* two later detectors are never called
C3_Witness ==
    /\ Done
    /\ checkForForms(data) # Nil
    /\ checkForExternalReferences(data) # Nil
    /\ checkForEmbeddedFiles(data) # Nil
    /\ err = ErrFormDetected
    /\ ran = <<"structure", "checkForJavaScript", "checkForForms">>

\* external beats embedded
C3_WitnessExternal ==
    /\ Done
    /\ checkForExternalReferences(data) # Nil
    /\ checkForEmbeddedFiles(data) # Nil
    /\ err = ErrExternalRefDetected

(***************************************************************************)
(* C4 as claimed.  A buffer with a valid header that holds /JavaScript or  *)
(* /JS outside the stream regions, in any letter case and with whitespace  *)
(* anywhere inside the marker, is answered ScriptDetected.                 *)
(***************************************************************************)
SpacedMarkers ==
    { <<"/", WS, "J", WS, "a", WS, "v", WS, "a", WS, "S", WS, "c", WS, "r",
        WS, "i", WS, "p", WS, "t">>,
      <<"/", WS, "J", WS, "S">> }

C4_AnyWhitespace ==
    Done /\ err # ErrJavaScriptDetected =>
        ~( /\ HasHeader(data)
           /\ \E rx \in SpacedMarkers : MatchesOutside(rx, data, Regions(data)) )

(***************************************************************************)
(* C4 as amended.  A buffer with a valid header that holds /JavaScript or  *)
(* /JS outside the stream regions, in any letter case and with any         *)
(* whitespace between the slash and the name, is answered ScriptDetected.  *)
(***************************************************************************)
Markers == { <<"/", WS, "JavaScript">>, <<"/", WS, "JS">> }

C4_SlashWhitespace ==
    Done /\ err # ErrJavaScriptDetected =>
        ~( /\ HasHeader(data)
           /\ \E rx \in Markers : MatchesOutside(rx, data, Regions(data)) )

\* a lower-case marker with a newline after the slash, in a buffer that also
\* holds a stream region, and no marker without whitespace
C4_Witness ==
    /\ Done
    /\ HasHeader(data)
    /\ Regions(data) # {}
    /\ \E i \in 1..Len(data) :
          TextAt("/ \n js", data, i) /\ Outside(Regions(data), i, i + 5)
    /\ ~MatchString(<<"/JavaScript">>, data)
    /\ ~MatchString(<<"/JS">>, data)
    /\ err = ErrJavaScriptDetected

(***************************************************************************)
(* C5 as claimed.  Replacing each stream region by a single space never    *)
(* makes the script detector report a buffer whose text outside the        *)
(* regions holds no script signature.                                      *)
(***************************************************************************)
C5_NoMatchFromStripping ==
    Done /\ err = ErrJavaScriptDetected =>
        ~( /\ HasHeader(data)
           /\ ~ScriptSignature(OutsideText(data, "|")) )

(***************************************************************************)
(* C5 as amended.  The script detector does not report a buffer whose text *)
(* outside the stream regions, each region read as one space, holds no     *)
(* script signature: what lies strictly inside a region is never reported. *)
(***************************************************************************)
C5_StreamExclusion ==
    Done /\ err = ErrJavaScriptDetected =>
        ~( /\ HasHeader(data)
           /\ ~ScriptSignature(OutsideText(data, " ")) )

\* a region that holds a script marker, the script detector called and passed
C5_Witness ==
    /\ Done
    /\ \E r \in Regions(data) : ScriptSignature(SubSeq(data, r[1] + 6, r[2] - 10))
    /\ Len(ran) > 2
    /\ err # ErrJavaScriptDetected

(***************************************************************************)
(* C6.  A buffer with a valid header that holds, outside the stream        *)
(* regions, a "#" followed by at least 8 hex digits and the token          *)
(* "javascript" or "js" (any case) within the 80 characters before the "#" *)
(* is answered ScriptDetected, also when no direct pattern matches.        *)
(***************************************************************************)
C6_HexObfuscation ==
    Done /\ err # ErrJavaScriptDetected =>
        ~( /\ HasHeader(data)
           /\ LET regs == Regions(data) IN
              \E i \in 1..Len(data) :
                 /\ HexRunAt(data, i)
                 /\ Outside(regs, i, i + 8)
                 /\ \/ TokenBefore("javascript", data, regs, i)
                    \/ TokenBefore("js", data, regs, i) )

\* the only token starts exactly 80 characters before the "#", and no
\* direct pattern matches
C6_Witness ==
    /\ Done
    /\ HasHeader(data)
    /\ \E i \in 81..Len(data) :
          /\ HexRunAt(data, i)
          /\ LitAt("javascript", data, i - 80)
          /\ \A p \in 1..Len(data) : LitAt("javascript", data, p) => p = i - 80
    /\ ~MatchString(<<"js">>, data)
    /\ ~MatchAny(jsPatterns, CollapseWhitespace(StripStreams(data)))
    /\ err = ErrJavaScriptDetected

(***************************************************************************)
(* C7 as claimed.  A buffer with a valid header and no script or form      *)
(* signature that holds http://, https://, ftp:// or file:// outside the   *)
(* stream regions, whatever character precedes the scheme, is answered     *)
(* ExternalRefDetected.                                                    *)
(***************************************************************************)
Schemes == {"http://", "https://", "ftp://", "file://"}

\* a scheme stands at position i, outside the regions
SchemeAt(s, regs, i) ==
    \E sch \in Schemes : TextAt(sch, s, i) /\ Outside(regs, i, i + Len(sch) - 1)

C7_AnyPredecessor ==
    Done /\ err # ErrExternalRefDetected =>
        ~( /\ HasHeader(data)
           /\ checkForJavaScript(data) = Nil
           /\ checkForForms(data) = Nil
           /\ \E i \in 1..Len(data) : SchemeAt(data, Regions(data), i) )

(***************************************************************************)
(* C7 as amended.  A buffer with a valid header and no script or form      *)
(* signature that holds http://, https://, ftp:// or file:// outside the   *)
(* stream regions, at the start of the buffer or after a character that is *)
(* no letter, digit or underscore, is answered ExternalRefDetected.        *)
(***************************************************************************)
C7_SchemeAtWordStart ==
    Done /\ err # ErrExternalRefDetected =>
        ~( /\ HasHeader(data)
           /\ checkForJavaScript(data) = Nil
           /\ checkForForms(data) = Nil
           /\ \E i \in 1..Len(data) :
                 SchemeAt(data, Regions(data), i) /\ ~IsWord(data, i - 1) )

\* ftp:// after a space is the only scheme at a word start; an http:// that
\* follows a letter is in the buffer too
C7_Witness ==
    /\ Done
    /\ HasHeader(data)
    /\ \E i \in 1..Len(data) : TextAt(" ftp://", data, i)
    /\ \E i \in 1..Len(data) : TextAt("xhttp://", data, i)
    /\ \A i \in 1..Len(data) :
          SchemeAt(data, {}, i) /\ ~IsWord(data, i - 1) => TextAt("ftp://", data, i)
    /\ err = ErrExternalRefDetected

(***************************************************************************)
(* C8.  A buffer with a valid header and no script signature that holds    *)
(* /FT/Tx, /FT/Ch, /FT/Btn or /FT/Sig (any case, optional whitespace       *)
(* around the slashes) is answered FormDetected, each subtype on its own,  *)
(* and also when the marker lies in a stream region: the raw text is       *)
(* matched.                                                                *)
(***************************************************************************)
Subtypes == {"Tx", "Ch", "Btn", "Sig"}

FieldMarker(sub) == <<"/", WS, "FT", WS, "/", WS, sub>>

\* the subtypes whose marker the raw text holds
SubtypesIn(s) ==
    {sub \in Subtypes : \E i \in 1..Len(s) : MatchEnds(FieldMarker(sub), 1, s, i) # {}}

C8_FieldSubtypes ==
    Done /\ err # ErrFormDetected =>
        ~( /\ HasHeader(data)
           /\ checkForJavaScript(data) = Nil
           /\ SubtypesIn(data) # {} )

\* a signature-field marker with whitespace after the first slash, inside a
\* stream region, no other subtype and no other form marker in the buffer
C8_Witness ==
    /\ Done
    /\ HasHeader(data)
    /\ SubtypesIn(data) = {"Sig"}
    /\ SubtypesIn(StripStreams(data)) = {}
    /\ err = ErrFormDetected

(***************************************************************************)
(* C9.  A buffer with a valid header and no signature in any category      *)
(* (script patterns and hex heuristics on the stream-stripped text, form   *)
(* patterns on the raw text, external-reference patterns on the            *)
(* whitespace-collapsed text, embedded-file patterns on the raw text) is   *)
(* answered success, after all five detectors were called.                 *)
(***************************************************************************)
NoSignature(d) ==
    /\ ~ScriptSignature(OutsideText(d, " "))
    /\ ~MatchAny(formPatternsRegex, d)
    /\ ~MatchAny(externalRegexes, CollapseWhitespace(d))
    /\ ~MatchAny(embeddedFilesRegex, d)

C9_CleanPass ==
    Done /\ ~(err = Nil /\ ran = Order) =>
        ~( /\ HeaderStarts(data) # {}
           /\ NoSignature(data) )

\* a clean buffer with objects, a stream that holds a script marker, and a
\* name that begins like a form subtype
C9_Witness ==
    /\ Done
    /\ err = Nil
    /\ \E i \in 1..Len(data) : TextAt("<</Type/Catalog>>", data, i)
    /\ \E i \in 1..Len(data) : TextAt("stream /JS endstream", data, i)
    /\ \E i \in 1..Len(data) : TextAt("/Tx", data, i)

(***************************************************************************)
(* C10.  Check returns success or exactly one of the five sentinels, the   *)
(* sentinel of the detector that reported; never ErrMaliciousPDF, a        *)
(* freshly made error or an aggregate.                                     *)
(***************************************************************************)
Sentinels ==
    {ErrInvalidPDFStructure, ErrJavaScriptDetected, ErrFormDetected,
     ErrExternalRefDetected, ErrEmbeddedFileDetected}

C10_ClosedTaxonomy ==
    /\ err \in Sentinels \cup {Nil}
    /\ Done /\ err # Nil =>
          /\ ran # <<>>
          /\ err = SentinelOf(ran[Len(ran)])
          /\ Verdict(ran[Len(ran)], data) # Nil

\* the last detector reports: the embedded-file sentinel is returned
C10_Witness ==
    /\ Done
    /\ err = ErrEmbeddedFileDetected
    /\ ran[Len(ran)] = "checkForEmbeddedFiles"

(***************************************************************************)
(* Vocabulary for several calls.                                           *)
(***************************************************************************)
\* what Check returns on a buffer when it runs alone: the report of the
\* first detector, in the order of Check, that reports
CheckResult(d) ==
    LET hits == {n \in 1..Len(Order) : Verdict(Order[n], d) # Nil} IN
    IF hits = {} THEN Nil ELSE Verdict(Order[Min(hits)], d)

Alone == [b \in CallBuffers |-> CheckResult(b)]

\* the callers inside Check
InFlight == {p \in Callers : calls[p].pc # "idle"}

(***************************************************************************)
(* C11.  Idempotence: however often Check is called on a buffer, and       *)
(* whatever calls on other buffers are made before, between or during      *)
(* these calls, every call on the buffer returns the same verdict.         *)
(***************************************************************************)
C11_Idempotence ==
    \A b \in CallBuffers :
        \A m, n \in 1..Len(returned[b]) : returned[b][m] = returned[b][n]

\* Check was called twice on a buffer with a form and once on another
\* buffer, and all three calls have returned
C11_Witness ==
    \E b, c \in CallBuffers :
        /\ b # c
        /\ returned[b] = <<ErrFormDetected, ErrFormDetected>>
        /\ Len(returned[c]) = 1

(***************************************************************************)
(* C12.  Concurrent safety: the four signature lists always hold what      *)
(* package initialization put there, and under every interleaving of the   *)
(* steps of concurrent calls every call returns what Check returns on its  *)
(* buffer when it runs alone.                                              *)
(***************************************************************************)
C12_ConcurrentSafety ==
    /\ patterns = Compiled
    /\ \A b \in CallBuffers :
          \A n \in 1..Len(returned[b]) : returned[b][n] = Alone[b]
    /\ \A p \in Callers :
          calls[p].pc = "done" => calls[p].err = Alone[calls[p].data]

\* two calls on different buffers are inside Check at once: one has a
\* detection to return, the other has passed the script detector and is
\* not finished
C12_Witness ==
    \E p, q \in Callers :
        /\ p # q
        /\ calls[p].pc = "done" /\ calls[p].err \notin {Nil, ErrInvalidPDFStructure}
        /\ calls[q].pc \in {"forms", "external", "embedded"}
        /\ calls[q].data # calls[p].data

(***************************************************************************)
(* Vocabulary for the script detector's algorithm (spec section 4.3).      *)
(***************************************************************************)
\* the ten patterns the specification lists: scripting declaration,
\* scripting action, open action, app-object call, eval call, document
\* access, this access, getField, submitForm, importDataObject
ListedPatterns ==
    << <<"/", WS, "JavaScript">>, <<"/", WS, "JS">>, <<"/", WS, "OpenAction">>,
       <<"app", WS, ".">>, <<"eval", WS, "(">>, <<"document", WS, ".">>,
       <<"this", WS, ".">>, <<"getField", WS, "(">>, <<"submitForm", WS, "(">>,
       <<"importDataObject", WS, "(">> >>

\* a JS( call whose argument starts, after optional whitespace, with "#"
\* and at least two hex digits
HexCallPattern == <<"JS(", WS, "#", Hex2>>

\* the three rules of the algorithm on a stream-stripped text t, with rxs
\* as the direct patterns
Specified(rxs, t) ==
    \/ MatchAny(rxs, CollapseWhitespace(t))
    \/ \E i \in 1..Len(t) :
          HexRunAt(t, i) /\ (TokenBefore("javascript", t, {}, i) \/ TokenBefore("js", t, {}, i))
    \/ /\ \E i \in 1..Len(t) :
             TextAt("<", t, i) /\ HexRunEnd(t, i + 1) >= i + 5
                               /\ TextAt(">", t, HexRunEnd(t, i + 1))
       /\ \E i \in 1..Len(t) : LitAt("javascript", t, i) \/ LitAt("js", t, i)

\* the script detector was called and this is the finished call
ScriptDetectorRan == Done /\ Len(ran) >= 2

(***************************************************************************)
(* C13 as claimed.  The script detector reports ScriptDetected if and only *)
(* if, on the stream-stripped text, one of the ten listed patterns matches *)
(* the whitespace-collapsed text, or a "#" with 4+ hex pairs has           *)
(* "javascript"/"js" in the 80 characters before it, or the text holds an  *)
(* angle-bracket string of 4+ hex digits and "javascript"/"js" somewhere.  *)
(***************************************************************************)
C13_TenPatterns ==
    ScriptDetectorRan =>
        ((err = ErrJavaScriptDetected) <=> Specified(ListedPatterns, OutsideText(data, " ")))

(***************************************************************************)
(* C13 as amended.  The same equivalence with eleven direct patterns: the  *)
(* ten listed and the JS( call with a hex argument.                        *)
(***************************************************************************)
C13_ElevenPatterns ==
    ScriptDetectorRan =>
        ((err = ErrJavaScriptDetected)
            <=> Specified(Append(ListedPatterns, HexCallPattern), OutsideText(data, " ")))

\* the call is answered ScriptDetected for a buffer in which the only
\* signature is a JS( call with a two-digit hex argument
C13_Witness ==
    /\ ScriptDetectorRan
    /\ err = ErrJavaScriptDetected
    /\ MatchString(HexCallPattern, CollapseWhitespace(OutsideText(data, " ")))
    /\ ~Specified(ListedPatterns, OutsideText(data, " "))

\* the call passes the script detector with an angle-bracket hex string
\* and no "js" in the text
C13_WitnessPass ==
    /\ ScriptDetectorRan
    /\ err # ErrJavaScriptDetected
    /\ \E i \in 1..Len(data) : TextAt("<6a73>", data, i)

====
